---- MODULE Spec2Model ----
(***************************************************************************)
(* A model of src/src/utils/util_fireants.py: main(), _get_profile_params  *)
(* and run_fireants_registration, the moments -> affine -> deformable      *)
(* registration driver.  One action per statement that calls out of the    *)
(* function (load, construct, optimize, read, save, write); every such     *)
(* call may raise, and the function has no try/except, so a raise ends the *)
(* run.  The optimizers themselves live in the FireANTs library; their     *)
(* per-level iteration loop is modelled from section 4.3/4.4 of the        *)
(* specification.                                                          *)
(***************************************************************************)
EXTENDS Integers, Sequences, FiniteSets, TLC

VARIABLES
    args,              \* main: the parsed command line [profile, no_moments]
    geometry_ok,       \* environment: do the two input volumes share a registrable grid
    pc,                \* position in main / run_fireants_registration
    profile,           \* run_fireants_registration parameter
    do_moments,        \* run_fireants_registration parameter
    params,            \* (scales, iterations, affine_lr, deform_lr), line 94
    loaded,            \* fixed_img / moving_img / fixed_batch / moving_batch made so far
    init_rigid,        \* local init_rigid
    moments,           \* the MomentsRegistration object
    affine,            \* the AffineRegistration object
    init_affine,       \* local init_affine
    deform_iterations, \* local deform_iterations
    reg,               \* the GreedyRegistration object
    moved,             \* local moved / moved_batch
    files,             \* the files written under out_prefix: suffix -> content
    log,               \* history: optimizations started / finished and files written, in order
    failed_at          \* history: the position at which an exception was raised

vars == <<args, geometry_ok, pc, profile, do_moments, params, loaded, init_rigid,
          moments, affine, init_affine, deform_iterations, reg, moved, files, log,
          failed_at>>

(***************************************************************************)
(* Strings are sequences of characters, so that str.lower() is computed.   *)
(***************************************************************************)
UpperChars == <<"A","B","C","D","E","F","G","H","I","J","K","L","M",
                "N","O","P","Q","R","S","T","U","V","W","X","Y","Z">>

LowerChars == <<"a","b","c","d","e","f","g","h","i","j","k","l","m",
                "n","o","p","q","r","s","t","u","v","w","x","y","z">>

LowerChar(c) ==
    IF \E i \in 1..Len(UpperChars) : UpperChars[i] = c
    THEN LowerChars[CHOOSE i \in 1..Len(UpperChars) : UpperChars[i] = c]
    ELSE c

NoLower(s) == s

\* profile.lower(), line 44
Lower(s) == [i \in 1..Len(s) |-> LowerChar(s[i])]

S_test == <<"t","e","s","t">>

S_quick == <<"q","u","i","c","k">>

S_balanced == <<"b","a","l","a","n","c","e","d">>

S_default == <<"d","e","f","a","u","l","t">>

\* The --profile values the command line is driven with: the four documented
\* names, three spelled with capitals, an unknown name, a misspelled one and
\* the empty string.
ProfileArgs ==
    { S_test, S_quick, S_balanced, S_default,
      <<"T","E","S","T">>, <<"Q","u","i","c","k">>,
      <<"B","a","l","a","n","c","e","D">>,
      <<"f","a","s","t">>, <<"d","e","f","u","a","l","t">>, <<>> }

\* Learning rates are kept as exact fractions.
AffineLr == [num |-> 3, den |-> 1000]

DeformLr == [num |-> 1, den |-> 2]

TestIterationsNonZeroFinest(p) ==
    LET q == Lower(p) IN
    IF q = S_test
    THEN [scales |-> <<4, 2, 1>>, iterations |-> <<8, 2, 1>>,
          affine_lr |-> AffineLr, deform_lr |-> DeformLr]
    ELSE IF q = S_quick
    THEN [scales |-> <<4, 2, 1>>, iterations |-> <<100, 50, 0>>,
          affine_lr |-> AffineLr, deform_lr |-> DeformLr]
    ELSE IF q = S_balanced
    THEN [scales |-> <<4, 2, 1>>, iterations |-> <<50, 50, 25>>,
          affine_lr |-> AffineLr, deform_lr |-> DeformLr]
    ELSE [scales |-> <<4, 2, 1>>, iterations |-> <<200, 100, 50>>,
          affine_lr |-> AffineLr, deform_lr |-> DeformLr]

_get_profile_params(p) ==
    LET q == Lower(p) IN
    IF q = S_test
    THEN [scales |-> <<4, 2, 1>>, iterations |-> <<8, 2, 0>>,
          affine_lr |-> AffineLr, deform_lr |-> DeformLr]
    ELSE IF q = S_quick
    THEN [scales |-> <<4, 2, 1>>, iterations |-> <<100, 50, 0>>,
          affine_lr |-> AffineLr, deform_lr |-> DeformLr]
    ELSE IF q = S_balanced
    THEN [scales |-> <<4, 2, 1>>, iterations |-> <<50, 50, 25>>,
          affine_lr |-> AffineLr, deform_lr |-> DeformLr]
    ELSE [scales |-> <<4, 2, 1>>, iterations |-> <<200, 100, 50>>,
          affine_lr |-> AffineLr, deform_lr |-> DeformLr]


(***************************************************************************)
(* Values.  A transform is known by its provenance: what it is, what it    *)
(* was seeded with, and how many optimizer updates it has received.        *)
(***************************************************************************)
None == [kind |-> "none", seed |-> "none", steps |-> 0]

\* MomentsRegistration(scale=1.0, ...), line 110
MomentsScale == 1

\* the threshold and value of the finest-level cap, lines 164-165
DeformCap == 25

F_MomentsInit == "MomentsInit.mat"

F_MomentsWarped == "MomentsWarped.nii.gz"

F_Affine == "0GenericAffine.mat"

F_Warped == "Warped.nii.gz"

F_Def == "Def.nii.gz"

F_InvDef == "InvDef.nii.gz"

NoMoments == [state |-> "none", scale |-> 0, rigid |-> None]

NoAffine ==
    [state |-> "none", scales |-> <<>>, iterations |-> <<>>, init_rigid |-> None,
     optimizer_lr |-> AffineLr, level |-> 0, iter |-> 0, matrix |-> None,
     level_out |-> <<>>]

NoGreedy ==
    [state |-> "none", scales |-> <<>>, iterations |-> <<>>, init_affine |-> None,
     optimizer_lr |-> DeformLr, level |-> 0, iter |-> 0,
     warp |-> [kind |-> "none", seed |-> None, steps |-> 0], level_out |-> <<>>]

NoImage == [kind |-> "none", transform |-> None, optimized |-> FALSE]

Write(name, content) == files' = (name :> content) @@ files

Logged(ev, what) == log' = Append(log, [ev |-> ev, what |-> what])

Goto(from, to) == pc = from /\ pc' = to

(***************************************************************************)
(* Init: the command line has been parsed, nothing has run.  The locals    *)
(* hold the defaults of the function signature until the call binds them.  *)
(***************************************************************************)
Init ==
    /\ args \in [profile : ProfileArgs, no_moments : BOOLEAN]
    /\ geometry_ok \in BOOLEAN
    /\ pc = "main"
    /\ profile = S_default
    /\ do_moments = TRUE
    /\ params = [scales |-> <<>>, iterations |-> <<>>,
                 affine_lr |-> AffineLr, deform_lr |-> DeformLr]
    /\ loaded = {}
    /\ init_rigid = None
    /\ moments = NoMoments
    /\ affine = NoAffine
    /\ init_affine = None
    /\ deform_iterations = <<>>
    /\ reg = NoGreedy
    /\ moved = NoImage
    /\ files = << >>
    /\ log = << >>
    /\ failed_at = "nowhere"

\* main(), lines 246-252: the call binds profile and do_moments
main ==
    /\ Goto("main", "get_params")
    /\ profile' = args.profile
    /\ do_moments' = ~ args.no_moments
    /\ UNCHANGED <<args, geometry_ok, params, loaded, init_rigid, moments, affine,
                   init_affine, deform_iterations, reg, moved, files, log, failed_at>>

\* line 94
GetProfileParams ==
    /\ Goto("get_params", "load_fixed")
    /\ params' = _get_profile_params(profile)
    /\ UNCHANGED <<args, geometry_ok, profile, do_moments, loaded, init_rigid, moments,
                   affine, init_affine, deform_iterations, reg, moved, files, log,
                   failed_at>>

\* line 97
LoadFixed ==
    /\ Goto("load_fixed", "load_moving")
    /\ loaded' = loaded \cup {"fixed_img"}
    /\ UNCHANGED <<args, geometry_ok, profile, do_moments, params, init_rigid, moments,
                   affine, init_affine, deform_iterations, reg, moved, files, log,
                   failed_at>>

\* line 98
LoadMoving ==
    /\ Goto("load_moving", "batch")
    /\ loaded' = loaded \cup {"moving_img"}
    /\ UNCHANGED <<args, geometry_ok, profile, do_moments, params, init_rigid, moments,
                   affine, init_affine, deform_iterations, reg, moved, files, log,
                   failed_at>>

MomentsAlways(dm) == TRUE

\* the test of line 108
MomentsEnabled(dm) == dm

\* lines 100-108: the batches, init_rigid = None, and the branch on do_moments.
\* Nothing here compares the two volumes' grids.
MakeBatches ==
    /\ pc = "batch"
    /\ loaded' = loaded \cup {"fixed_batch", "moving_batch"}
    /\ init_rigid' = None
    /\ pc' = IF MomentsEnabled(do_moments) THEN "moments_ctor" ELSE "affine_ctor"
    /\ UNCHANGED <<args, geometry_ok, profile, do_moments, params, moments, affine,
                   init_affine, deform_iterations, reg, moved, files, log, failed_at>>


(***************************************************************************)
(* Moments registration, lines 108-134.                                    *)
(***************************************************************************)
MomentsScaleCoarsest == params.scales[1]

\* the scale the moments stage is constructed with, line 110
moments_scale == MomentsScale

\* lines 109-119
MomentsConstruct ==
    /\ Goto("moments_ctor", "moments_opt")
    /\ moments' = [state |-> "constructed", scale |-> moments_scale, rigid |-> None]
    /\ UNCHANGED <<args, geometry_ok, profile, do_moments, params, loaded, init_rigid,
                   affine, init_affine, deform_iterations, reg, moved, files, log,
                   failed_at>>

\* line 121, moments.optimize() is entered
MomentsOptimizeStart ==
    /\ pc = "moments_opt"
    /\ moments.state = "constructed"
    /\ moments' = [moments EXCEPT !.state = "running"]
    /\ Logged("start", "moments")
    /\ UNCHANGED <<args, geometry_ok, pc, profile, do_moments, params, loaded,
                   init_rigid, affine, init_affine, deform_iterations, reg, moved,
                   files, failed_at>>

\* line 121, moments.optimize() returns: the closed-form rigid estimate is there
MomentsOptimizeEnd ==
    /\ pc = "moments_opt"
    /\ moments.state = "running"
    /\ moments' = [moments EXCEPT !.state = "optimized",
                                  !.rigid = [kind |-> "rigid", seed |-> "none", steps |-> 0]]
    /\ Logged("end", "moments")
    /\ pc' = "moments_get"
    /\ UNCHANGED <<args, geometry_ok, profile, do_moments, params, loaded,
                   init_rigid, affine, init_affine, deform_iterations, reg, moved,
                   files, failed_at>>

\* moments.get_affine_init(), as called on line 122
get_affine_init(m) == m.rigid

\* line 122
MomentsGetInit ==
    /\ Goto("moments_get", "moments_save")
    /\ init_rigid' = get_affine_init(moments)
    /\ UNCHANGED <<args, geometry_ok, profile, do_moments, params, loaded, moments,
                   affine, init_affine, deform_iterations, reg, moved, files, log,
                   failed_at>>

\* lines 125-127
MomentsSave ==
    /\ Goto("moments_save", "moments_eval")
    /\ Write(F_MomentsInit, [kind |-> "transform", transform |-> moments.rigid,
                             inverse |-> FALSE, optimized |-> moments.state = "optimized"])
    /\ Logged("write", F_MomentsInit)
    /\ UNCHANGED <<args, geometry_ok, profile, do_moments, params, loaded, init_rigid,
                   moments, affine, init_affine, deform_iterations, reg, moved,
                   failed_at>>

\* lines 130-134: the moments-warped image is evaluated and written
MomentsWrite ==
    /\ Goto("moments_eval", "affine_ctor")
    /\ Write(F_MomentsWarped, [kind |-> "image", transform |-> moments.rigid,
                               inverse |-> FALSE, optimized |-> moments.state = "optimized"])
    /\ Logged("write", F_MomentsWarped)
    /\ UNCHANGED <<args, geometry_ok, profile, do_moments, params, loaded, init_rigid,
                   moments, affine, init_affine, deform_iterations, reg, moved,
                   failed_at>>

(***************************************************************************)
(* Affine registration, lines 139-157.                                     *)
(***************************************************************************)
\* lines 139-149: list(scales), list(iterations) are copies
AffineConstruct ==
    /\ Goto("affine_ctor", "affine_opt")
    /\ affine' = [state |-> "constructed", scales |-> params.scales,
                  iterations |-> params.iterations, init_rigid |-> init_rigid,
                  optimizer_lr |-> params.affine_lr, level |-> 0, iter |-> 0,
                  matrix |-> [kind |-> "affine", seed |-> init_rigid.kind, steps |-> 0],
                  level_out |-> <<>>]
    /\ UNCHANGED <<args, geometry_ok, profile, do_moments, params, loaded, init_rigid,
                   moments, init_affine, deform_iterations, reg, moved, files, log,
                   failed_at>>

\* line 151, affine.optimize() is entered at the first (coarsest) level
AffineOptimizeStart ==
    /\ pc = "affine_opt"
    /\ affine.state = "constructed"
    /\ affine' = [affine EXCEPT !.state = "running", !.level = 1, !.iter = 0]
    /\ Logged("start", "affine")
    /\ UNCHANGED <<args, geometry_ok, pc, profile, do_moments, params, loaded,
                   init_rigid, moments, init_affine, deform_iterations, reg, moved,
                   files, failed_at>>

\* one optimizer update of the current level
AffineIterate ==
    /\ pc = "affine_opt"
    /\ affine.state = "running"
    /\ affine.iter < affine.iterations[affine.level]
    /\ affine' = [affine EXCEPT !.iter = @ + 1, !.matrix.steps = @ + 1]
    /\ UNCHANGED <<args, geometry_ok, pc, profile, do_moments, params, loaded,
                   init_rigid, moments, init_affine, deform_iterations, reg, moved,
                   files, log, failed_at>>

\* the level's budget is used up: on to the next finer level, warm-started
AffineNextLevel ==
    /\ pc = "affine_opt"
    /\ affine.state = "running"
    /\ affine.iter = affine.iterations[affine.level]
    /\ affine.level < Len(affine.scales)
    /\ affine' = [affine EXCEPT !.level = @ + 1, !.iter = 0,
                                !.level_out = Append(@, [scale |-> affine.scales[affine.level],
                                                         iters |-> affine.iter,
                                                         matrix |-> affine.matrix])]
    /\ UNCHANGED <<args, geometry_ok, pc, profile, do_moments, params, loaded,
                   init_rigid, moments, init_affine, deform_iterations, reg, moved,
                   files, log, failed_at>>

\* line 151, affine.optimize() returns after the last level
AffineOptimizeEnd ==
    /\ pc = "affine_opt"
    /\ affine.state = "running"
    /\ affine.iter = affine.iterations[affine.level]
    /\ affine.level = Len(affine.scales)
    /\ affine' = [affine EXCEPT !.state = "optimized",
                                !.level_out = Append(@, [scale |-> affine.scales[affine.level],
                                                         iters |-> affine.iter,
                                                         matrix |-> affine.matrix])]
    /\ Logged("end", "affine")
    /\ pc' = "affine_get"
    /\ UNCHANGED <<args, geometry_ok, profile, do_moments, params, loaded,
                   init_rigid, moments, init_affine, deform_iterations, reg, moved,
                   files, failed_at>>

get_seed_of_affine(a) == a.init_rigid

\* affine.get_affine_matrix(), as called on line 152
get_affine_matrix(a) == a.matrix

\* line 152
AffineGetMatrix ==
    /\ Goto("affine_get", "affine_save")
    /\ init_affine' = get_affine_matrix(affine)
    /\ UNCHANGED <<args, geometry_ok, profile, do_moments, params, loaded, init_rigid,
                   moments, affine, deform_iterations, reg, moved, files, log,
                   failed_at>>

\* lines 155-157
AffineSave ==
    /\ Goto("affine_save", "deform_iters")
    /\ Write(F_Affine, [kind |-> "transform", transform |-> affine.matrix,
                        inverse |-> FALSE, optimized |-> affine.state = "optimized"])
    /\ Logged("write", F_Affine)
    /\ UNCHANGED <<args, geometry_ok, profile, do_moments, params, loaded, init_rigid,
                   moments, affine, init_affine, deform_iterations, reg, moved,
                   failed_at>>


(***************************************************************************)
(* Deformable (greedy) registration and export, lines 163-204.             *)
(***************************************************************************)
CapEveryLevel(iterations) ==
    [i \in 1..Len(iterations) |->
        IF iterations[i] > DeformCap THEN DeformCap ELSE iterations[i]]

\* lines 163-165: a copy of iterations whose last entry is cut to 25
DeformIterations(iterations) ==
    IF Len(iterations) >= 3 /\ iterations[Len(iterations)] > DeformCap
    THEN [iterations EXCEPT ![Len(iterations)] = DeformCap]
    ELSE iterations

\* lines 163-165
CapDeformIterations ==
    /\ Goto("deform_iters", "greedy_ctor")
    /\ deform_iterations' = DeformIterations(params.iterations)
    /\ UNCHANGED <<args, geometry_ok, profile, do_moments, params, loaded, init_rigid,
                   moments, affine, init_affine, reg, moved, files, log, failed_at>>

GreedyConstructNoOptimize ==
    /\ Goto("greedy_ctor", "evaluate")
    /\ reg' = [state |-> "constructed", scales |-> params.scales,
               iterations |-> deform_iterations, init_affine |-> init_affine,
               optimizer_lr |-> params.deform_lr, level |-> 0, iter |-> 0,
               warp |-> [kind |-> "warp", seed |-> init_affine, steps |-> 0],
               level_out |-> <<>>]
    /\ UNCHANGED <<args, geometry_ok, profile, do_moments, params, loaded, init_rigid,
                   moments, affine, init_affine, deform_iterations, moved, files, log,
                   failed_at>>

\* lines 167-179
GreedyConstruct ==
    /\ Goto("greedy_ctor", "greedy_opt")
    /\ reg' = [state |-> "constructed", scales |-> params.scales,
               iterations |-> deform_iterations, init_affine |-> init_affine,
               optimizer_lr |-> params.deform_lr, level |-> 0, iter |-> 0,
               warp |-> [kind |-> "warp", seed |-> init_affine, steps |-> 0],
               level_out |-> <<>>]
    /\ UNCHANGED <<args, geometry_ok, profile, do_moments, params, loaded, init_rigid,
                   moments, affine, init_affine, deform_iterations, moved, files, log,
                   failed_at>>

\* line 182, reg.optimize() is entered at the first (coarsest) level
GreedyOptimizeStart ==
    /\ pc = "greedy_opt"
    /\ reg.state = "constructed"
    /\ reg' = [reg EXCEPT !.state = "running", !.level = 1, !.iter = 0]
    /\ Logged("start", "greedy")
    /\ UNCHANGED <<args, geometry_ok, pc, profile, do_moments, params, loaded,
                   init_rigid, moments, affine, init_affine, deform_iterations, moved,
                   files, failed_at>>

\* one compositive update of the current level
GreedyIterate ==
    /\ pc = "greedy_opt"
    /\ reg.state = "running"
    /\ reg.iter < reg.iterations[reg.level]
    /\ reg' = [reg EXCEPT !.iter = @ + 1, !.warp.steps = @ + 1]
    /\ UNCHANGED <<args, geometry_ok, pc, profile, do_moments, params, loaded,
                   init_rigid, moments, affine, init_affine, deform_iterations, moved,
                   files, log, failed_at>>

\* the level's budget is used up: on to the next finer level, warm-started
GreedyNextLevel ==
    /\ pc = "greedy_opt"
    /\ reg.state = "running"
    /\ reg.iter = reg.iterations[reg.level]
    /\ reg.level < Len(reg.scales)
    /\ reg' = [reg EXCEPT !.level = @ + 1, !.iter = 0,
                          !.level_out = Append(@, [scale |-> reg.scales[reg.level],
                                                   iters |-> reg.iter,
                                                   warp |-> reg.warp])]
    /\ UNCHANGED <<args, geometry_ok, pc, profile, do_moments, params, loaded,
                   init_rigid, moments, affine, init_affine, deform_iterations, moved,
                   files, log, failed_at>>

\* line 182, reg.optimize() returns after the last level
GreedyOptimizeEnd ==
    /\ pc = "greedy_opt"
    /\ reg.state = "running"
    /\ reg.iter = reg.iterations[reg.level]
    /\ reg.level = Len(reg.scales)
    /\ reg' = [reg EXCEPT !.state = "optimized",
                          !.level_out = Append(@, [scale |-> reg.scales[reg.level],
                                                   iters |-> reg.iter,
                                                   warp |-> reg.warp])]
    /\ Logged("end", "greedy")
    /\ pc' = "evaluate"
    /\ UNCHANGED <<args, geometry_ok, profile, do_moments, params, loaded,
                   init_rigid, moments, affine, init_affine, deform_iterations, moved,
                   files, failed_at>>

\* lines 187-188
Evaluate ==
    /\ Goto("evaluate", "write_warped")
    /\ moved' = [kind |-> "image", transform |-> reg.warp,
                 optimized |-> reg.state = "optimized"]
    /\ UNCHANGED <<args, geometry_ok, profile, do_moments, params, loaded, init_rigid,
                   moments, affine, init_affine, deform_iterations, reg, files, log,
                   failed_at>>

\* lines 190-192
WriteWarped ==
    /\ Goto("write_warped", "save_forward")
    /\ Write(F_Warped, [kind |-> moved.kind, transform |-> moved.transform,
                        inverse |-> FALSE, optimized |-> moved.optimized])
    /\ Logged("write", F_Warped)
    /\ UNCHANGED <<args, geometry_ok, profile, do_moments, params, loaded, init_rigid,
                   moments, affine, init_affine, deform_iterations, reg, moved,
                   failed_at>>

\* reg.save_as_ants_transforms([path], save_inverse=...), as called on lines 201 and 204
save_as_ants_transforms(path, save_inverse) ==
    /\ Write(path, [kind |-> "field", transform |-> reg.warp,
                    inverse |-> save_inverse, optimized |-> reg.state = "optimized"])
    /\ Logged("write", path)

\* lines 197, 200-201
SaveForward ==
    /\ Goto("save_forward", "save_inverse")
    /\ save_as_ants_transforms(F_Def, FALSE)
    /\ UNCHANGED <<args, geometry_ok, profile, do_moments, params, loaded, init_rigid,
                   moments, affine, init_affine, deform_iterations, reg, moved,
                   failed_at>>

SaveInverseAsForward ==
    /\ Goto("save_inverse", "Complete")
    /\ save_as_ants_transforms(F_InvDef, FALSE)
    /\ UNCHANGED <<args, geometry_ok, profile, do_moments, params, loaded, init_rigid,
                   moments, affine, init_affine, deform_iterations, reg, moved,
                   failed_at>>

\* lines 198, 203-204; the function then returns
SaveInverse ==
    /\ Goto("save_inverse", "Complete")
    /\ save_as_ants_transforms(F_InvDef, TRUE)
    /\ UNCHANGED <<args, geometry_ok, profile, do_moments, params, loaded, init_rigid,
                   moments, affine, init_affine, deform_iterations, reg, moved,
                   failed_at>>

(***************************************************************************)
(* Exceptions.  Every statement from the first load on calls into the      *)
(* library or the filesystem and may raise; lines 94-204 hold no try,      *)
(* except or finally, so the exception leaves the function at once and     *)
(* nothing is undone: the files written so far stay.                       *)
(***************************************************************************)
RaisingPcs ==
    { "load_fixed", "load_moving", "batch", "moments_ctor", "moments_opt",
      "moments_get", "moments_save", "moments_eval", "affine_ctor", "affine_opt",
      "affine_get", "affine_save", "greedy_ctor", "greedy_opt", "evaluate",
      "write_warped", "save_forward", "save_inverse" }

RaiseAndRestartStage ==
    /\ pc \in RaisingPcs
    /\ pc' = IF pc = "affine_opt" /\ affine.state = "running" THEN "affine_ctor" ELSE "Failed"
    /\ failed_at' = pc
    /\ UNCHANGED <<args, geometry_ok, profile, do_moments, params, loaded, init_rigid,
                   moments, affine, init_affine, deform_iterations, reg, moved, files,
                   log>>

Raise ==
    /\ pc \in RaisingPcs
    /\ pc' = "Failed"
    /\ failed_at' = pc
    /\ UNCHANGED <<args, geometry_ok, profile, do_moments, params, loaded, init_rigid,
                   moments, affine, init_affine, deform_iterations, reg, moved, files,
                   log>>

Next ==
    \/ main
    \/ GetProfileParams
    \/ LoadFixed
    \/ LoadMoving
    \/ MakeBatches
    \/ MomentsConstruct
    \/ MomentsOptimizeStart
    \/ MomentsOptimizeEnd
    \/ MomentsGetInit
    \/ MomentsSave
    \/ MomentsWrite
    \/ AffineConstruct
    \/ AffineOptimizeStart
    \/ AffineIterate
    \/ AffineNextLevel
    \/ AffineOptimizeEnd
    \/ AffineGetMatrix
    \/ AffineSave
    \/ CapDeformIterations
    \/ GreedyConstruct
    \/ GreedyOptimizeStart
    \/ GreedyIterate
    \/ GreedyNextLevel
    \/ GreedyOptimizeEnd
    \/ Evaluate
    \/ WriteWarped
    \/ SaveForward
    \/ SaveInverse
    \/ Raise

Spec == Init /\ [][Next]_vars


(***************************************************************************)
(* Reading the history.                                                    *)
(***************************************************************************)
Ev(ev, what) == [ev |-> ev, what |-> what]

Count(e) == Cardinality({i \in DOMAIN log : log[i] = e})

Happened(e) == \E i \in DOMAIN log : log[i] = e

\* every occurrence of e2 comes after an occurrence of e1
Precedes(e1, e2) ==
    \A j \in DOMAIN log : log[j] = e2 => \E i \in 1..(j - 1) : log[i] = e1

Written == DOMAIN files

ExportFiles == {F_Warped, F_Def, F_InvDef}

MomentsFiles == {F_MomentsInit, F_MomentsWarped}

AllFiles == ExportFiles \cup MomentsFiles \cup {F_Affine}

(***************************************************************************)
(* C1.  The stages run strictly in the order moments (only when do_moments *)
(* is true), affine, deformable, export: affine.optimize() is never        *)
(* entered before moments.optimize() has returned, reg.optimize() never    *)
(* before affine.optimize() has returned, no exported file is written      *)
(* before reg.optimize() has returned, and the function returns only after *)
(* the deformable stage has finished and Warped, Def and InvDef have been  *)
(* written.                                                                *)
(***************************************************************************)
C1_StagesInOrder ==
    /\ Happened(Ev("start", "moments")) => do_moments
    /\ do_moments => Precedes(Ev("end", "moments"), Ev("start", "affine"))
    /\ Precedes(Ev("start", "moments"), Ev("end", "moments"))
    /\ Precedes(Ev("start", "affine"), Ev("end", "affine"))
    /\ Precedes(Ev("end", "affine"), Ev("start", "greedy"))
    /\ Precedes(Ev("start", "greedy"), Ev("end", "greedy"))
    /\ \A f \in ExportFiles : Precedes(Ev("end", "greedy"), Ev("write", f))
    /\ pc = "Complete" =>
          /\ Happened(Ev("end", "greedy"))
          /\ reg.state = "optimized"
          /\ \A f \in ExportFiles : Happened(Ev("write", f)) /\ f \in Written

C1_Witness ==
    /\ pc = "Complete"
    /\ do_moments
    /\ Happened(Ev("end", "moments"))
    /\ Happened(Ev("end", "affine"))
    /\ Happened(Ev("end", "greedy"))

(***************************************************************************)
(* C2.  If any step of the run fails, no output artifact of the run is     *)
(* left published when the run ends.                                       *)
(***************************************************************************)
C2_NoOutputLeftAfterFailure == pc = "Failed" => Written = {}

(***************************************************************************)
(* C3.  Once a step fails the run goes directly to the failed terminal     *)
(* state and stays there: nothing is started and nothing is written after  *)
(* the failure, and each of moments, affine and deformable optimize() is   *)
(* entered at most once per run.                                           *)
(***************************************************************************)
C3_FailureIsFinal ==
    /\ [](failed_at # "nowhere" => pc = "Failed")
    /\ [](\A s \in {"moments", "affine", "greedy"} : Count(Ev("start", s)) <= 1)
    /\ [][pc = "Failed" => (pc' = "Failed" /\ log' = log /\ files' = files)]_vars

C3_Witness ==
    /\ pc = "Failed"
    /\ failed_at = "affine_opt"
    /\ affine.state = "running"
    /\ affine.level = 2

(***************************************************************************)
(* C4.  With do_moments false (--no-moments) the moments stage is never    *)
(* executed, the affine stage is constructed with init_rigid = None, and   *)
(* neither MomentsInit.mat nor MomentsWarped.nii.gz is ever written, for   *)
(* every profile.                                                          *)
(***************************************************************************)
C4_NoMomentsSkips ==
    /\ pc # "main" => do_moments = ~ args.no_moments
    /\ (pc # "main" /\ ~ do_moments) =>
          /\ moments.state = "none"
          /\ ~ Happened(Ev("start", "moments"))
          /\ init_rigid = None
          /\ affine.state # "none" => affine.init_rigid = None
          /\ Written \cap MomentsFiles = {}
          /\ \A f \in MomentsFiles : ~ Happened(Ev("write", f))

C4_Witness ==
    /\ pc = "Complete"
    /\ args.no_moments
    /\ ~ do_moments
    /\ affine.state = "optimized"

(***************************************************************************)
(* C5.  A run that completes has written exactly 0GenericAffine.mat,       *)
(* Warped.nii.gz, Def.nii.gz (the forward field, save_inverse=False) and   *)
(* InvDef.nii.gz (the inverse field, save_inverse=True), plus              *)
(* MomentsInit.mat and MomentsWarped.nii.gz exactly when moments is        *)
(* enabled, each once, and no other file.                                  *)
(***************************************************************************)
C5_ExactOutputs ==
    pc = "Complete" =>
        /\ Written = ExportFiles \cup {F_Affine}
                       \cup (IF do_moments THEN MomentsFiles ELSE {})
        /\ \A i \in DOMAIN log : log[i].ev = "write" => log[i].what \in Written
        /\ \A f \in Written : Count(Ev("write", f)) = 1
        /\ files[F_Def].kind = "field" /\ files[F_Def].inverse = FALSE
        /\ files[F_InvDef].kind = "field" /\ files[F_InvDef].inverse = TRUE
        /\ files[F_Warped].kind = "image"
        /\ files[F_Affine].kind = "transform"

C5_Witness ==
    /\ pc = "Complete"
    /\ Written = AllFiles
    /\ files[F_InvDef].inverse


Min(a, b) == IF a <= b THEN a ELSE b

Last(q) == q[Len(q)]

DefaultBundle == Lower(profile) \notin {S_test, S_quick, S_balanced}

(***************************************************************************)
(* C6, as claimed.  The moments stage is configured with the coarsest      *)
(* scale factor of the active profile's scale list (its first entry, 4).   *)
(***************************************************************************)
C6_MomentsAtCoarsestScale ==
    moments.state # "none" => (moments.scale = params.scales[1] /\ moments.scale = 4)

(***************************************************************************)
(* C6, amended.  The moments stage is configured with scale 1.0, the full  *)
(* resolution (the last, finest entry of the profile's scale list, not the *)
(* coarsest), whatever the profile; it runs once, and outside the          *)
(* per-level loops: before the affine and deformable stages exist.         *)
(***************************************************************************)
C6_MomentsAtFullResolutionOnce ==
    /\ moments.state # "none" =>
          /\ moments.scale = 1
          /\ moments.scale = Last(params.scales)
          /\ moments.scale # params.scales[1]
    /\ Count(Ev("start", "moments")) <= 1
    /\ moments.state \in {"constructed", "running"} =>
          (affine.state = "none" /\ reg.state = "none")
    /\ Precedes(Ev("end", "moments"), Ev("start", "affine")) \/ ~ do_moments

C6_Witness ==
    /\ moments.state = "optimized"
    /\ moments.scale = 1
    /\ affine.state = "running"
    /\ affine.level = 1
    /\ affine.scales[affine.level] = 4

(***************************************************************************)
(* C7.  For every profile the deformable stage's budgets equal the affine  *)
(* stage's at every level but the last, and at the last level the          *)
(* deformable budget is min(affine budget, 25): 25 < 50 in the default     *)
(* profile, and never above the affine budget of the same level.  The      *)
(* affine stage's own list is not changed by the cap.                      *)
(***************************************************************************)
C7_DeformBudgetCapped ==
    reg.state # "none" =>
        LET a == affine.iterations
            d == reg.iterations
            n == Len(a)
        IN  /\ Len(d) = n
            /\ n = 3
            /\ \A i \in 1..(n - 1) : d[i] = a[i]
            /\ d[n] = Min(a[n], 25)
            /\ \A i \in 1..n : d[i] <= a[i]
            /\ DefaultBundle => (d[n] = 25 /\ a[n] = 50 /\ d[n] < a[n])
            /\ a = params.iterations
            /\ a = _get_profile_params(profile).iterations
            /\ d = deform_iterations

C7_Witness ==
    /\ reg.state = "optimized"
    /\ Lower(profile) = S_default
    /\ affine.iterations = <<200, 100, 50>>
    /\ reg.iterations = <<200, 100, 25>>

(***************************************************************************)
(* C8.  When the fixed and moving volumes do not share a registrable grid, *)
(* the run fails before any optimization starts and before any file is     *)
(* written: it gets past loading only with validated geometry.             *)
(***************************************************************************)
C8_GeometryCheckedBeforeOptimizing ==
    ~ geometry_ok =>
        /\ log = << >>
        /\ Written = {}
        /\ moments.state \notin {"running", "optimized"}
        /\ affine.state \notin {"running", "optimized"}
        /\ reg.state \notin {"running", "optimized"}

(***************************************************************************)
(* C9.  Each stage is seeded with the final output of the stage before it  *)
(* and nothing else: the affine stage's init_rigid is the moments result   *)
(* when moments is enabled and None otherwise; the deformable stage's      *)
(* init_affine is the affine matrix as it is after affine.optimize() has   *)
(* returned, never the moments transform, never the identity; the warped   *)
(* image and both exported fields come from the deformable registration    *)
(* after its optimize() has returned.                                      *)
(***************************************************************************)
C9_StagesThreaded ==
    /\ affine.state # "none" =>
          /\ do_moments =>
                /\ moments.state = "optimized"
                /\ affine.init_rigid = moments.rigid
                /\ affine.init_rigid.kind = "rigid"
          /\ ~ do_moments => affine.init_rigid = None
          /\ affine.matrix.seed = affine.init_rigid.kind
    /\ reg.state # "none" =>
          /\ affine.state = "optimized"
          /\ reg.init_affine = affine.matrix
          /\ reg.init_affine = Last(affine.level_out).matrix
          /\ reg.init_affine.kind = "affine"
          /\ reg.init_affine.steps > 0
          /\ reg.init_affine # affine.init_rigid
          /\ reg.warp.seed = affine.matrix
    /\ \A f \in Written \cap ExportFiles :
          /\ reg.state = "optimized"
          /\ files[f].optimized
          /\ files[f].transform = reg.warp
          /\ files[f].transform = Last(reg.level_out).warp

C9_Witness ==
    /\ pc = "Complete"
    /\ do_moments
    /\ reg.init_affine.seed = "rigid"
    /\ files[F_Warped].transform.seed = affine.matrix

Bundle(its) ==
    [scales |-> <<4, 2, 1>>, iterations |-> its,
     affine_lr |-> [num |-> 3, den |-> 1000], deform_lr |-> [num |-> 1, den |-> 2]]

FourBundles ==
    { Bundle(<<8, 2, 0>>), Bundle(<<100, 50, 0>>), Bundle(<<50, 50, 25>>),
      Bundle(<<200, 100, 50>>) }

C11_ProfileLookupTotal ==
    /\ failed_at # "get_params"
    /\ pc = "get_params" => failed_at = "nowhere"
    /\ pc \notin {"main", "get_params"} =>
          /\ profile = args.profile
          /\ params \in FourBundles
          /\ Len(params.scales) = 3 /\ Len(params.iterations) = 3
          /\ profile \in {S_test, <<"T","E","S","T">>}
                => params = Bundle(<<8, 2, 0>>)
          /\ profile \in {S_quick, <<"Q","u","i","c","k">>}
                => params = Bundle(<<100, 50, 0>>)
          /\ profile \in {S_balanced, <<"B","a","l","a","n","c","e","D">>}
                => params = Bundle(<<50, 50, 25>>)
          /\ profile \in {S_default, <<"f","a","s","t">>,
                          <<"d","e","f","u","a","l","t">>, << >>}
                => params = Bundle(<<200, 100, 50>>)
          /\ params = _get_profile_params(profile)
    /\ Cardinality({_get_profile_params(n) : n \in ProfileArgs}) = 4

C11_Witness ==
    /\ pc = "load_fixed"
    /\ profile = <<"T","E","S","T">>
    /\ params = Bundle(<<8, 2, 0>>)
    /\ failed_at = "nowhere"

====
